---- MODULE Spec2Model ----
(***************************************************************************)
(* Model of VelocityCorrection.py: loadFitCSV, zangleModel and             *)
(* velocityCorrection, run against the table file preatmosphere_fits.csv.  *)
(*                                                                         *)
(* Representation.                                                         *)
(*  - A file is a sequence of lines, a line a sequence of text symbols.    *)
(*    A symbol is either one character of interest ('#', ' ', ';', LF, CR, *)
(*    a letter) or the decimal text of one number, held as Num(n).         *)
(*  - Python floats are integers here (no NaN, no infinity, no rounding).  *)
(*    Table velocities and coefficients are whole multiples of 1000, so    *)
(*    the true divisions by 1000 (lines 128 and 147) are exact.            *)
(*  - Angles: the caller's zenith angle is in degrees, multiples of 15.    *)
(*    math.radians is a multiplication by the constant pi/180; the angle   *)
(*    in radians is held in units of pi/12 rad, which is exact on          *)
(*    multiples of 15 degrees, and the table's coefficient of zangle**k is *)
(*    read in m/s per (pi/12 rad)**k.                                      *)
(*  - Python sequences are 0-based, TLA+ sequences 1-based: line[k] of the *)
(*    source is row[k+1] here.                                             *)
(*  - An optional value is a sequence of length 0 or 1.                    *)
(***************************************************************************)
EXTENDS Integers, Sequences, FiniteSets, TLC

(* ------------------------------ bounds -------------------------------- *)

\* Longest table file, in lines.
MaxLines == 2

(* --------------------------- text symbols ----------------------------- *)

Num(n) == [c |-> "num", n |-> n]
Chr(s) == [c |-> s, n |-> 0]

Hash  == Chr("#")
Space == Chr(" ")
Semi  == Chr(";")
LF    == Chr("LF")
CR    == Chr("CR")
Word  == Chr("x")

(* ---------------------- loadFitCSV (lines 11-35) ---------------------- *)

\* line.replace('\n', '').replace('\r', '')
StripNewline(line) == SelectSeq(line, LAMBDA s : s # LF /\ s # CR)

\* Variant of IsHeader: '#' as the first character after any white space.
IsHeaderAnywhere(line) ==
    \E i \in 1..Len(line) :
        /\ line[i] = Hash
        /\ \A j \in 1..(i - 1) : line[j] = Space

\* The test of line 26, on a line that has a first character.
IsHeader(line) == line[1] = Hash

\* str.split(delimiter): the fields between the delimiters, empty ones kept.
RECURSIVE Split(_, _)
Split(line, delimiter) ==
    IF \A i \in 1..Len(line) : line[i] # delimiter
    THEN <<line>>
    ELSE LET k == CHOOSE i \in 1..Len(line) :
                      /\ line[i] = delimiter
                      /\ \A j \in 1..(i - 1) : line[j] # delimiter
         IN  <<SubSeq(line, 1, k - 1)>> \o Split(SubSeq(line, k + 1, Len(line)), delimiter)

\* float() ignores white space around the number.
RECURSIVE Strip(_)
Strip(field) ==
    IF field = <<>> THEN field
    ELSE IF Head(field) = Space THEN Strip(Tail(field))
    ELSE IF field[Len(field)] = Space THEN Strip(SubSeq(field, 1, Len(field) - 1))
    ELSE field

\* float(field) succeeds exactly on one number with optional white space around it.
IsFloat(field) == Len(Strip(field)) = 1 /\ Strip(field)[1].c = "num"

Float(field) == Strip(field)[1].n

\* list(map(float, line.split(delimiter))), when every field converts.
ParseLine(line, delimiter) ==
    LET fields == Split(line, delimiter)
    IN  [i \in 1..Len(fields) |-> Float(fields[i])]

\* Variant of AllFloat: text that is no number is let through (and reads as 0).
AnyText(line, delimiter) == TRUE

\* Every field of the line converts: float() raises on none of them.
AllFloat(line, delimiter) ==
    LET fields == Split(line, delimiter)
    IN  \A i \in 1..Len(fields) : IsFloat(fields[i])

\* Variant of FreshList: the list of the call before is used again.
CarriedList(old) == old

\* data = [] of line 17: a fresh list, whatever an earlier call left behind.
FreshList(old) == <<>>

(* ----------------------- zangleModel (lines 39-51) --------------------- *)

Pow(x, n) == IF n = 0 THEN 1
             ELSE IF n = 1 THEN x
             ELSE IF n = 2 THEN x * x
             ELSE IF n = 3 THEN x * x * x
             ELSE IF n = 4 THEN x * x * x * x
             ELSE IF n = 5 THEN x * x * x * x * x
             ELSE x * x * x * x * x * x

zangleModel(zangle, a, b, c, d, e, f, g) ==
    a + b * zangle + c * Pow(zangle, 2) + d * Pow(zangle, 3) + e * Pow(zangle, 4)
      + f * Pow(zangle, 5) + g * Pow(zangle, 6)

\* math.radians, in units of pi/12 rad.
Radians(deg) == deg \div 15

\* True division, exact on the values of the model.
TrueDiv(x, y) == x \div y

Abs(x) == IF x < 0 THEN -x ELSE x

(* ------------------- velocityCorrection (lines 56-147) ----------------- *)

\* Line 84: the largest zenith angle that was simulated, in degrees.
ZangleLimit == 75

\* Variant of LimitZangle: no limit.
KeepZangle(zangle) == zangle

\* Lines 83-85.
LimitZangle(zangle) == IF zangle > ZangleLimit THEN ZangleLimit ELSE zangle

\* Variant of SystemId: any other string is taken for 'allsky'.
SystemIdOrDefault(system_type) ==
    IF system_type = "intensified" THEN <<2>>
    ELSE IF system_type = "moderate" THEN <<1>>
    ELSE <<0>>

\* Lines 92-103: the system id, or nothing where the source raises.
SystemId(system_type) ==
    IF system_type = "intensified" THEN <<2>>
    ELSE IF system_type = "moderate" THEN <<1>>
    ELSE IF system_type = "allsky" THEN <<0>>
    ELSE <<>>

\* Lines 106-117: the meteoroid id, or nothing where the source raises.
MeteoroidId(meteoroid_type) ==
    IF meteoroid_type = "cometary" THEN <<0>>
    ELSE IF meteoroid_type = "asteroidal" THEN <<1>>
    ELSE IF meteoroid_type = "iron-rich" THEN <<2>>
    ELSE <<>>

\* The exceptions of the source: the class, and the parts of the message.
ValueError(msg) == [kind |-> "ValueError", msg |-> msg]
IndexError(msg) == [kind |-> "IndexError", msg |-> msg]
TypeError(msg)  == [kind |-> "TypeError", msg |-> msg]

\* Line 103.
SystemTypeError(system_type) ==
    ValueError(<<"system_type = ", system_type,
                 " not found! Try using 'intensified', 'moderate' or 'allsky'.">>)

\* Line 117.
MeteoroidTypeError(meteoroid_type) ==
    ValueError(<<"meteoroid_type = ", meteoroid_type,
                 " not found! Try using 'comeraty', 'asteroidal' or 'iron-rich'.">>)

\* float() of line 30 on a field that is no number.
FloatError == ValueError(<<"could not convert string to float">>)

\* line[0] of line 26 on an empty line.
EmptyLineError == IndexError(<<"string index out of range">>)

\* line[k] on a row with too few fields (lines 125, 128, 134).
RowIndexError == IndexError(<<"list index out of range">>)

\* min() of line 137 on an empty list.
EmptyMinError == ValueError(<<"min() arg is an empty sequence">>)

\* zangleModel(...) of line 147 called with other than 7 fit parameters.
ArgumentCountError == TypeError(<<"zangleModel() takes exactly 8 arguments">>)

\* Line 124 and line 125: a list comprehension keeping the rows whose field
\* `col` equals `id`, in order.
FilterRows(rows, col, id) == SelectSeq(rows, LAMBDA line : line[col] = id)

\* Line 128.
VelDiffs(fit_data, v_init) ==
    [i \in 1..Len(fit_data) |-> Abs(TrueDiv(fit_data[i][3], 1000) - v_init)]

\* Python's min() of a non-empty list.
Min(xs) == CHOOSE x \in { xs[i] : i \in 1..Len(xs) } :
               \A j \in 1..Len(xs) : x <= xs[j]

\* Variant of Index: the last position holding x.
LastIndex(xs, x) == CHOOSE k \in 1..Len(xs) :
                        /\ xs[k] = x
                        /\ \A j \in (k + 1)..Len(xs) : xs[j] # x

\* list.index(x): the first position holding x.
Index(xs, x) == CHOOSE k \in 1..Len(xs) :
                    /\ xs[k] = x
                    /\ \A j \in 1..(k - 1) : xs[j] # x

\* Variant of VelIndices: the first index with the smallest difference alone.
FirstVelIndex(vel_diffs) ==
    IF vel_diffs = <<>> THEN <<>> ELSE <<Index(vel_diffs, Min(vel_diffs))>>

\* Line 131: every index with the smallest velocity difference, ascending.
VelIndices(vel_diffs) ==
    SelectSeq([i \in 1..Len(vel_diffs) |-> i],
              LAMBDA i : vel_diffs[i] = Min(vel_diffs))

\* Variant of MagDiffs: zangle taken where peak_mag is meant.
MagDiffsByZangle(fit_data, vel_indices, q) ==
    [k \in 1..Len(vel_indices) |-> Abs(fit_data[vel_indices[k]][4] - q.zangle)]

\* Line 134.
MagDiffs(fit_data, vel_indices, q) ==
    [k \in 1..Len(vel_indices) |-> Abs(fit_data[vel_indices[k]][4] - q.peak_mag)]

\* Line 137.
MagInd(mag_diffs) == Index(mag_diffs, Min(mag_diffs))

\* Line 144: line[4:].
FitParams(line) == SubSeq(line, 5, Len(line))

(* ------------------------------ inputs -------------------------------- *)

\* The text of a table row: the fields joined by ';', then the line ending.
RECURSIVE Join(_)
Join(fields) ==
    IF Len(fields) = 0 THEN <<>>
    ELSE IF Len(fields) = 1 THEN <<Num(fields[1])>>
    ELSE <<Num(fields[1]), Semi>> \o Join(Tail(fields))

RowText(fields, eol) == Join(fields) \o eol

\* moderate/cometary rows: system id 1, meteoroid id 0.
RowA == <<1, 0, 20000, 2, 1000, 1000, 0, 0, 0, 0, 0>>
RowB == <<1, 0, 22000, 2, 2000, 0, 1000, 0, 0, 0, 1000>>
RowC == <<1, 0, 20000, 4, 3000, 0, 0, 1000, 1000, 1000, 0>>
\* an intensified/asteroidal row.
RowO == <<2, 1, 20000, 2, 4000, 2000, 0, 0, 0, 0, 0>>
\* a moderate/cometary row with 10 fields.
RowShort == <<1, 0, 22000, 4, 5000, 1000, 0, 0, 0, 0>>

LineA     == RowText(RowA, <<LF>>)
LineB     == RowText(RowB, <<LF>>)
LineC     == RowText(RowC, <<LF>>)
LineO     == RowText(RowO, <<CR, LF>>)
LineShort == RowText(RowShort, <<LF>>)
\* "# x"
LineHeader == <<Hash, Space, Word, LF>>
\* " # x"
LineIndentedHeader == <<Space, Hash, Space, Word, LF>>
\* an empty line
LineEmpty == <<LF>>
\* an intensified/asteroidal row whose velocity field is not a number
LineWord == <<Num(2), Semi, Num(1), Semi, Word>> \o <<Semi>> \o Join(SubSeq(RowO, 4, 11)) \o <<LF>>

Lines == {LineA, LineB, LineC, LineO, LineShort, LineHeader, LineIndentedHeader,
          LineEmpty, LineWord}

RECURSIVE SeqsUpTo(_, _)
SeqsUpTo(S, n) ==
    IF n = 0 THEN {<<>>}
    ELSE LET shorter == SeqsUpTo(S, n - 1)
         IN  shorter \cup { Append(s, x) : s \in shorter, x \in S }

Files == SeqsUpTo(Lines, MaxLines)

\* The files of the runs with repeated calls.
RepeatLines == {LineA, LineB, LineC, LineO, LineWord}

RepeatFiles == SeqsUpTo(RepeatLines, MaxLines)

VInits         == {20, 21}
PeakMags       == {2, 3}
Zangles        == {0, 75, 90}
SystemTypes    == {"intensified", "moderate", "allsky", "wide"}
MeteoroidTypes == {"cometary", "asteroidal", "iron-rich", "rocky"}

Queries == [v_init : VInits, peak_mag : PeakMags, zangle : Zangles,
            meteoroid_type : MeteoroidTypes, system_type : SystemTypes]

(* ------------------------------- state -------------------------------- *)

VARIABLES
    file,          \* the lines of preatmosphere_fits.csv
    pc,            \* where the current call of velocityCorrection stands
    call,          \* the arguments the caller passed
    q,             \* the parameters as local variables (zangle is reassigned)
    system_id,     \* optional
    meteoroid_id,  \* optional
    li,            \* loadFitCSV: the next line of the file to read
    data,          \* loadFitCSV: the rows read so far
    fit_data,      \* the loaded table, then the filtered one
    vel_indices,
    mag_ind,       \* optional
    matched,       \* the table entry printed at lines 139-141, optional
    fit_params,
    model_value,   \* what zangleModel returned, optional
    result,        \* what velocityCorrection returned, optional
    raised,        \* the exception that ended the call, optional
    trace,         \* the steps of the current call, in order
    prev           \* the previous call: arguments, table and outcome; optional

vars == <<file, pc, call, q, system_id, meteoroid_id, li, data, fit_data,
          vel_indices, mag_ind, matched, fit_params, model_value, result,
          raised, trace, prev>>

locals == <<system_id, meteoroid_id, li, data, fit_data, vel_indices, mag_ind,
            fit_params, model_value>>

\* Before the first call: the file is on disk, nothing else exists.
InitWith(files) ==
    /\ file \in files
    /\ pc = "idle"
    /\ call = <<>>
    /\ q = <<>>
    /\ system_id = <<>>
    /\ meteoroid_id = <<>>
    /\ li = 1
    /\ data = <<>>
    /\ fit_data = <<>>
    /\ vel_indices = <<>>
    /\ mag_ind = <<>>
    /\ matched = <<>>
    /\ fit_params = <<>>
    /\ model_value = <<>>
    /\ result = <<>>
    /\ raised = <<>>
    /\ trace = <<>>
    /\ prev = <<>>

Init == InitWith(Files)

InitRepeat == InitWith(RepeatFiles)

\* An exception propagates out of velocityCorrection: the call ends.
Raise(e) ==
    /\ pc' = "raised"
    /\ raised' = <<e>>

Ended == pc \in {"returned", "raised"}

\* What a finished call leaves with its caller, and the table it worked on.
Outcome == [args |-> call, table |-> data, matched |-> matched,
            result |-> result, raised |-> raised]

\* Line 180: the caller calls velocityCorrection.
FirstCall ==
    /\ pc = "idle"
    /\ \E args \in Queries :
        /\ call' = args
        /\ q' = args
    /\ pc' = "clamp"
    /\ UNCHANGED <<file, locals, matched, result, raised, trace, prev>>

\* The caller asks again for the same meteor, at any zenith angle.
NextCall ==
    /\ Ended
    /\ prev' = <<Outcome>>
    /\ \E z \in Zangles :
        /\ call' = [call EXCEPT !.zangle = z]
        /\ q' = [call EXCEPT !.zangle = z]
    /\ pc' = "clamp"
    /\ matched' = <<>>
    /\ result' = <<>>
    /\ raised' = <<>>
    /\ trace' = <<>>
    /\ UNCHANGED <<file, locals>>

\* Lines 83-85.
Clamp ==
    /\ pc = "clamp"
    /\ q' = [q EXCEPT !.zangle = LimitZangle(q.zangle)]
    /\ pc' = "system"
    /\ UNCHANGED <<file, call, locals, matched, result, raised, trace, prev>>

\* Lines 92-103.
ChooseSystemId ==
    /\ pc = "system"
    /\ IF SystemId(q.system_type) = <<>>
       THEN /\ Raise(SystemTypeError(q.system_type))
            /\ UNCHANGED system_id
       ELSE /\ system_id' = SystemId(q.system_type)
            /\ pc' = "meteoroid"
            /\ UNCHANGED raised
    /\ UNCHANGED <<file, call, q, meteoroid_id, li, data, fit_data, vel_indices,
                   mag_ind, matched, fit_params, model_value, result, trace, prev>>

\* Lines 106-117.
ChooseMeteoroidId ==
    /\ pc = "meteoroid"
    /\ IF MeteoroidId(q.meteoroid_type) = <<>>
       THEN /\ Raise(MeteoroidTypeError(q.meteoroid_type))
            /\ UNCHANGED meteoroid_id
       ELSE /\ meteoroid_id' = MeteoroidId(q.meteoroid_type)
            /\ pc' = "open"
            /\ UNCHANGED raised
    /\ UNCHANGED <<file, call, q, system_id, li, data, fit_data, vel_indices,
                   mag_ind, matched, fit_params, model_value, result, trace, prev>>

\* Lines 121, 15-17: loadFitCSV is called and opens the file.
OpenFile ==
    /\ pc = "open"
    /\ data' = FreshList(data)
    /\ li' = 1
    /\ trace' = Append(trace, "load")
    /\ pc' = "read"
    /\ UNCHANGED <<file, call, q, system_id, meteoroid_id, fit_data, vel_indices,
                   mag_ind, matched, fit_params, model_value, result, raised, prev>>

\* Variant of AfterLoad: the file is loaded once more.
ReadAgain == "open"

\* Where control goes when loadFitCSV has returned: on to line 124.
AfterLoad == "filter"

\* Lines 20-32: one turn of the loop, and line 35 with 121 at the end of the file.
ReadLine ==
    /\ pc = "read"
    /\ IF li > Len(file)
       THEN /\ fit_data' = data
            /\ pc' = AfterLoad
            /\ UNCHANGED <<li, data, raised>>
       ELSE LET line == StripNewline(file[li])
            IN  IF line = <<>>
                THEN /\ Raise(EmptyLineError)
                     /\ UNCHANGED <<li, data, fit_data>>
                ELSE IF IsHeader(line)
                THEN /\ li' = li + 1
                     /\ UNCHANGED <<pc, data, fit_data, raised>>
                ELSE IF ~AllFloat(line, Semi)
                THEN /\ Raise(FloatError)
                     /\ UNCHANGED <<li, data, fit_data>>
                ELSE /\ data' = Append(data, ParseLine(line, Semi))
                     /\ li' = li + 1
                     /\ UNCHANGED <<pc, fit_data, raised>>
    /\ UNCHANGED <<file, call, q, system_id, meteoroid_id, vel_indices, mag_ind,
                   matched, fit_params, model_value, result, trace, prev>>

\* Lines 123-125: the two list comprehensions.
Filter ==
    /\ pc = "filter"
    /\ LET by_system == FilterRows(fit_data, 1, system_id[1])
       IN  IF \E i \in 1..Len(by_system) : Len(by_system[i]) < 2
           THEN /\ Raise(RowIndexError)
                /\ UNCHANGED fit_data
           ELSE /\ fit_data' = FilterRows(by_system, 2, meteoroid_id[1])
                /\ pc' = "match"
                /\ UNCHANGED raised
    /\ UNCHANGED <<file, call, q, system_id, meteoroid_id, li, data, vel_indices,
                   mag_ind, matched, fit_params, model_value, result, trace, prev>>

\* Lines 127-144: the best matching velocity, then among those the best
\* matching magnitude; the matched entry is printed and its fit parameters taken.
Match ==
    /\ pc = "match"
    /\ trace' = Append(trace, "select")
    /\ IF \E i \in 1..Len(fit_data) : Len(fit_data[i]) < 3
       THEN /\ Raise(RowIndexError)
            /\ UNCHANGED <<vel_indices, mag_ind, matched, fit_params>>
       ELSE LET vel_diffs == VelDiffs(fit_data, q.v_init)
                indices   == VelIndices(vel_diffs)
            IN  /\ vel_indices' = indices
                /\ IF \E k \in 1..Len(indices) : Len(fit_data[indices[k]]) < 4
                   THEN /\ Raise(RowIndexError)
                        /\ UNCHANGED <<mag_ind, matched, fit_params>>
                   ELSE IF indices = <<>>
                   THEN /\ Raise(EmptyMinError)
                        /\ UNCHANGED <<mag_ind, matched, fit_params>>
                   ELSE LET ind == MagInd(MagDiffs(fit_data, indices, q))
                        IN  /\ mag_ind' = <<ind>>
                            /\ matched' = <<fit_data[indices[ind]]>>
                            /\ fit_params' = FitParams(fit_data[indices[ind]])
                            /\ pc' = "evaluate"
                            /\ UNCHANGED raised
    /\ UNCHANGED <<file, call, q, system_id, meteoroid_id, li, data, fit_data,
                   model_value, result, prev>>

\* Line 147: zangleModel(math.radians(zangle), *fit_params).
Evaluate ==
    /\ pc = "evaluate"
    /\ trace' = Append(trace, "evaluate")
    /\ IF Len(fit_params) # 7
       THEN /\ Raise(ArgumentCountError)
            /\ UNCHANGED model_value
       ELSE /\ model_value' = <<zangleModel(Radians(q.zangle), fit_params[1],
                                  fit_params[2], fit_params[3], fit_params[4],
                                  fit_params[5], fit_params[6], fit_params[7])>>
            /\ pc' = "return"
            /\ UNCHANGED raised
    /\ UNCHANGED <<file, call, q, system_id, meteoroid_id, li, data, fit_data,
                   vel_indices, mag_ind, matched, fit_params, result, prev>>

\* Line 147: the value in km/s is returned.
Return ==
    /\ pc = "return"
    /\ result' = <<TrueDiv(model_value[1], 1000)>>
    /\ trace' = Append(trace, "return")
    /\ pc' = "returned"
    /\ UNCHANGED <<file, call, q, locals, matched, raised, prev>>

Next ==
    \/ FirstCall
    \/ Clamp
    \/ ChooseSystemId
    \/ ChooseMeteoroidId
    \/ OpenFile
    \/ ReadLine
    \/ Filter
    \/ Match
    \/ Evaluate
    \/ Return

\* One call of velocityCorrection, on any table file.
Spec == Init /\ [][Next]_vars

\* Call after call on one table file.
NextRepeat ==
    \/ Next
    \/ NextCall

SpecRepeat == InitRepeat /\ [][NextRepeat]_vars

(* ------------------------------ claims -------------------------------- *)

\* The enumerations of the interface, as the claims state them.
ValidSystemTypes    == {"intensified", "moderate", "allsky"}
ValidMeteoroidTypes == {"cometary", "asteroidal", "iron-rich"}

SystemIdOf(t) == CASE t = "allsky" -> 0 [] t = "moderate" -> 1 [] t = "intensified" -> 2 [] OTHER -> -1
MeteoroidIdOf(t) == CASE t = "cometary" -> 0 [] t = "asteroidal" -> 1 [] t = "iron-rich" -> 2 [] OTHER -> -1

InCall == pc # "idle"

BadSystem    == call.system_type \notin ValidSystemTypes
BadMeteoroid == call.meteoroid_type \notin ValidMeteoroidTypes

\* C1: a call with an unknown system_type or meteoroid_type never gets past the
\* validation: it opens no file, selects and returns nothing, takes no default
\* id, and when it has ended it has raised an error whose message holds the
\* offending value.
C1_UnknownCategoryRaisesBeforeLoad ==
    (InCall /\ (BadSystem \/ BadMeteoroid)) =>
        /\ pc \in {"clamp", "system", "meteoroid", "raised"}
        /\ pc = "meteoroid" => ~BadSystem
        /\ trace = <<>>
        /\ matched = <<>>
        /\ result = <<>>
        /\ pc = "raised" =>
            /\ raised[1].kind = "ValueError"
            /\ raised[1].msg[2] = (IF BadSystem THEN call.system_type
                                                ELSE call.meteoroid_type)

C1_Witness ==
    /\ pc = "raised"
    /\ call.system_type = "moderate"
    /\ call.meteoroid_type = "rocky"
    /\ raised[1].msg[2] = "rocky"
    /\ Len(file) = 2

\* The rows of the loaded table in the category the caller asked for, in file order.
CategoryRows ==
    SelectSeq(data, LAMBDA row : /\ row[1] = SystemIdOf(call.system_type)
                                 /\ row[2] = MeteoroidIdOf(call.meteoroid_type))

VelDist(row) == Abs(row[3] - 1000 * call.v_init)
MagDist(row) == Abs(row[4] - call.peak_mag)

\* Among `rows`, `row` is as near in velocity as any.
VelTied(rows, row) == \A i \in 1..Len(rows) : VelDist(row) <= VelDist(rows[i])

\* Among `rows`, `row` is as near in velocity as any and, of those that are,
\* as near in magnitude as any.
Best(rows, row) ==
    /\ VelTied(rows, row)
    /\ \A i \in 1..Len(rows) :
           VelTied(rows, rows[i]) => MagDist(row) <= MagDist(rows[i])

\* C2: the selected record is of the requested category, is nearest in
\* velocity among all rows of the category, and is nearest in magnitude among
\* all the rows of the category that are nearest in velocity.
C2_SelectedIsNearest ==
    matched # <<>> =>
        LET rows == CategoryRows
        IN  /\ \E i \in 1..Len(rows) : rows[i] = matched[1]
            /\ matched[1][1] = SystemIdOf(call.system_type)
            /\ matched[1][2] = MeteoroidIdOf(call.meteoroid_type)
            /\ Best(rows, matched[1])

\* The second of two rows equally near in velocity is selected for its magnitude.
C2_Witness ==
    /\ pc = "returned"
    /\ data = <<RowC, RowA>>
    /\ call.v_init = 20
    /\ call.peak_mag = 2
    /\ matched = <<RowA>>

\* C9: of the rows of the category that are best on both distances, the one
\* selected is the first in file order.
C9_FirstOccurrenceWins ==
    matched # <<>> =>
        LET rows == CategoryRows
            s    == vel_indices[mag_ind[1]]
        IN  /\ fit_data = rows
            /\ matched[1] = rows[s]
            /\ Best(rows, rows[s])
            /\ \A j \in 1..(s - 1) : ~Best(rows, rows[j])

C9_Witness ==
    /\ pc = "returned"
    /\ data = <<RowO, RowA>> \/ data = <<RowA, RowB>>
    /\ call.v_init = 21
    /\ call.peak_mag = 2
    /\ matched = <<RowA>>

SameButZangle(a, b) ==
    /\ a.v_init = b.v_init
    /\ a.peak_mag = b.peak_mag
    /\ a.meteoroid_type = b.meteoroid_type
    /\ a.system_type = b.system_type

\* C3: past the first statement the local zangle is the argument limited to 75
\* degrees, and a call with an angle above 75 ends as the call with 75 does:
\* same selected record, same delta, same error.
C3_AngleClampedTo75 ==
    /\ (InCall /\ pc # "clamp") =>
           q.zangle = (IF call.zangle > 75 THEN 75 ELSE call.zangle)
    /\ (Ended /\ prev # <<>> /\ SameButZangle(prev[1].args, call)
          /\ (\/ prev[1].args.zangle = 75 /\ call.zangle > 75
              \/ prev[1].args.zangle > 75 /\ call.zangle = 75)) =>
           /\ matched = prev[1].matched
           /\ result = prev[1].result
           /\ raised = prev[1].raised

C3_Witness ==
    /\ pc = "returned"
    /\ prev # <<>>
    /\ prev[1].args.zangle = 75
    /\ call.zangle = 90
    /\ result = prev[1].result
    /\ matched = <<RowB>>

\* C10: two calls that differ only in the zenith angle select the same record,
\* and fail alike when no record is selected.
C10_SelectionIgnoresZangle ==
    (InCall /\ prev # <<>> /\ SameButZangle(prev[1].args, call)) =>
        /\ pc \in {"evaluate", "return", "returned"} => matched = prev[1].matched
        /\ Ended => /\ matched = prev[1].matched
                    /\ matched = <<>> => raised = prev[1].raised

\* Same record, different delta: the angle reaches the model alone.
C10_Witness ==
    /\ pc = "returned"
    /\ prev # <<>>
    /\ prev[1].args.zangle = 0
    /\ call.zangle = 75
    /\ matched = prev[1].matched
    /\ result # prev[1].result
    /\ Len(data) = 2

\* C7: a call with the arguments of the call before it, over the same file,
\* works on the same table and ends the same way: same selected record, same
\* delta, same error.
C7_RepeatedCallSameOutcome ==
    (Ended /\ prev # <<>> /\ prev[1].args = call) => Outcome = prev[1]

C7_Witness ==
    /\ pc = "returned"
    /\ prev # <<>>
    /\ prev[1].args = call
    /\ prev[1].result = result
    /\ Len(data) = 2

IsPrefix(s, t) == Len(s) <= Len(t) /\ s = SubSeq(t, 1, Len(s))

\* C8: the steps of a call are a prefix of load, select, evaluate, return; a
\* call that returns has taken all four; the model is evaluated only on a
\* selected record, and a record is selected only from a table read in this call.
C8_StepsInOrderOnce ==
    /\ IsPrefix(trace, <<"load", "select", "evaluate", "return">>)
    /\ pc = "returned" <=> trace = <<"load", "select", "evaluate", "return">>
    /\ Len(trace) >= 3 => matched # <<>>
    /\ Len(trace) >= 2 => pc \notin {"open", "read"}
    /\ Len(trace) >= 4 => result # <<>>

C8_Witness ==
    /\ pc = "returned"
    /\ prev # <<>>
    /\ prev[1].result # <<>>
    /\ trace = <<"load", "select", "evaluate", "return">>

\* C4 as stated: the error raised when no row is of the requested category is
\* of another kind than the error for an unknown category string and the error
\* for a field that is no number.
C4_SelectionErrorOfItsOwnKind ==
    (pc = "raised" /\ trace = <<"load", "select">> /\ CategoryRows = <<>>) =>
        /\ result = <<>>
        /\ raised[1].kind # SystemTypeError(call.system_type).kind
        /\ raised[1].kind # MeteoroidTypeError(call.meteoroid_type).kind
        /\ raised[1].kind # FloatError.kind

\* A line the loader does not skip that holds a field that is no number.
NotANumberLine(l) ==
    LET line == StripNewline(l)
    IN  \/ line = <<>>
        \/ /\ line[1] # Hash
           /\ LET fields == Split(line, Semi)
              IN  \E i \in 1..Len(fields) : ~IsFloat(fields[i])

\* A line the loader does not skip that has other than 11 fields.
WrongCountLine(l) ==
    LET line == StripNewline(l)
    IN  \/ line = <<>>
        \/ /\ line[1] # Hash
           /\ Len(Split(line, Semi)) # 11

HasLine(P(_)) == \E i \in 1..Len(file) : P(file[i])

\* C5 as stated: with a line of a wrong field count or with a field that is no
\* number, no call gets a table or a delta.
C5_MalformedLineFailsLoad ==
    (HasLine(WrongCountLine) \/ HasLine(NotANumberLine)) =>
        /\ result = <<>>
        /\ fit_data = <<>>

\* C5 as amended: either no line is malformed, a malformed line being one that
\* does not start with '#' and holds a field that is no number (an empty line
\* included), or the load raises at such a line before it hands over any row,
\* whatever the category of the line, and no record is selected and no delta
\* returned.
C5_NonNumericLineFailsLoad ==
    \/ /\ result = <<>>
       /\ fit_data = <<>>
       /\ matched = <<>>
       /\ pc \in {"idle", "clamp", "system", "meteoroid", "open", "read", "raised"}
       /\ (pc = "raised" /\ trace = <<"load">>) =>
              /\ raised[1] \in {FloatError, EmptyLineError}
              /\ NotANumberLine(file[li])
    \/ ~HasLine(NotANumberLine)

\* The load fails on a line of another category, after a row of the requested
\* category has been read.
C5_Witness ==
    /\ pc = "raised"
    /\ file = <<LineA, LineWord>>
    /\ call.system_type = "moderate"
    /\ call.meteoroid_type = "cometary"
    /\ data = <<RowA>>
    /\ raised = <<FloatError>>

\* A comment line as the claim has it: '#' after optional white space.
ClaimedComment(l) ==
    LET line == StripNewline(l)
    IN  \E i \in 1..Len(line) : /\ line[i] = Hash
                                /\ \A j \in 1..(i - 1) : line[j] = Space

\* A comment line as the loader has it: '#' as the first character.
HashFirst(l) == StripNewline(l) # <<>> /\ StripNewline(l)[1] = Hash

Rows(lines) == [i \in 1..Len(lines) |-> ParseLine(StripNewline(lines[i]), Semi)]

\* C6 as stated: a line whose first content after white space is '#' never
\* makes the load fail, and the load returns the other lines in file order.
C6_CommentLinesSkipped ==
    /\ (pc = "raised" /\ trace = <<"load">>) => ~ClaimedComment(file[li])
    /\ pc = "filter" =>
           data = Rows(SelectSeq(file, LAMBDA l : ~ClaimedComment(l)))

\* C6 as amended: the comment lines are those with '#' as first character. They
\* never make the load fail, and a load that returns returns the rows of
\* exactly the other lines, in file order; a line with white space before the
\* '#' is read as data and makes the load fail.
C6_HashFirstLinesSkipped ==
    /\ (pc = "raised" /\ trace = <<"load">>) => ~HashFirst(file[li])
    /\ pc = "filter" =>
           /\ data = Rows(SelectSeq(file, LAMBDA l : ~HashFirst(l)))
           /\ fit_data = data
    /\ (\E i \in 1..Len(file) : ClaimedComment(file[i]) /\ ~HashFirst(file[i])) =>
           pc \notin {"filter", "match", "evaluate", "return", "returned"}

C6_Witness ==
    /\ pc = "filter"
    /\ file = <<LineHeader, LineO>>
    /\ data = <<RowO>>

====
